---------------------------- MODULE Spec2Model ----------------------------
(***************************************************************************)
(* A model of libWexpr's WexprTool driver (WexprTool/Private/Application.cpp)*)
(* and of the parts of the libWexpr expression API the driver rests on.    *)
(*                                                                         *)
(* Machine integers.  TLC's integers are 32-bit signed, the program's      *)
(* uint32_t and size_t are not, so a machine integer is a pair <<h, l>>    *)
(* that stands for h * 2^16 + l with 0 <= l < 2^16.                        *)
(***************************************************************************)
EXTENDS Integers, Sequences, FiniteSets, TLC

\* ------------------------------------------------------------------ bounds

\* The most top-level frames an enumerated input file is built from.
MaxChunks == 3
\* The most mapSetValueForKey calls of one run of the map.
MaxSets == 5
\* The most runs of the tool in a row (a run may feed on the last run's output).
MaxRuns == 2
\* The most header bytes an enumerated input changes at once.
MaxDev == 2
\* The most decoder calls the history keeps.
MaxLog == 4

\* The most iterations of the chunk scan the history counts.
MaxIters == 4

\* --------------------------------------------------------- machine integers

Limb == 256 * 256

N(n) == <<n \div Limb, n % Limb>>

Add(a, b) ==
  LET s == a[2] + b[2]
  IN  <<a[1] + b[1] + (s \div Limb), s % Limb>>

Lt(a, b) == a[1] < b[1] \/ (a[1] = b[1] /\ a[2] < b[2])

Le(a, b) == a = b \/ Lt(a, b)

\* The value as a TLC integer, for a value below 2^16.
Small(a) == a[2]

IsSmall(a) == a[1] = 0

\* size_t arithmetic is modulo 2^bits; no sum of the model reaches 2^64.
AsSizeT(a, bits) == IF bits = 32 THEN <<a[1] % Limb, a[2]>> ELSE a

\* ------------------------------------------------------------ endian helpers

Reverse4(b) == <<b[4], b[3], b[2], b[1]>>

\* The four bytes of a uint32, most significant first.
BytesOf(x) == <<x[1] \div 256, x[1] % 256, x[2] \div 256, x[2] % 256>>

ValueOf(b) == <<b[1] * 256 + b[2], b[3] * 256 + b[4]>>

\* *reinterpret_cast<const uint32_t*>(p): the host's reading of four bytes.
HostRead(b, big) == IF big THEN ValueOf(b) ELSE ValueOf(Reverse4(b))

\* *reinterpret_cast<uint32_t*>(p) = x: the bytes the host stores for x.
HostStore(x, big) == IF big THEN BytesOf(x) ELSE Reverse4(BytesOf(x))

wexpr_uint32ToBig(x, big) == IF big THEN x ELSE ValueOf(Reverse4(BytesOf(x)))

wexpr_bigUInt32ToNative(x, big) == IF big THEN x ELSE ValueOf(Reverse4(BytesOf(x)))

\* ---------------------------------------------------------- expression tree

\* An expression: a tag, the bytes of a Value or BinaryData, the children of
\* an Array or the values of a Map, and a Map's keys (keys[i] goes with kids[i]).
Node(t, b, k, ks) == [type |-> t, bytes |-> b, kids |-> k, keys |-> ks]

NullPtr == Node("nullptr", <<>>, <<>>, <<>>)

NullExpr == Node("Null", <<>>, <<>>, <<>>)

InvalidExpr == Node("Invalid", <<>>, <<>>, <<>>)

ValueExpr(b) == Node("Value", b, <<>>, <<>>)

BinaryExpr(b) == Node("BinaryData", b, <<>>, <<>>)

ArrayExpr(k) == Node("Array", <<>>, k, <<>>)

MapExpr(ks, k) == Node("Map", <<>>, k, ks)

\* ------------------------------------------------------------ error kinds

ErrNone == "None"

ErrInvalidHeader == "BinaryInvalidHeader"

ErrUnknownVersion == "BinaryUnknownVersion"

ErrMultiple == "BinaryMultipleExpressions"

ErrOverflow == "BinaryChunkOverflow"

ErrUnknownType == "BinaryUnknownType"

ErrNotMap == "BinaryChunkNotMap"

Error(c, m) == [code |-> c, message |-> m]

WEXPR_ERROR_INIT == Error(ErrNone, "")

\* ---------------------------------------------------------------- the map

\* The position of key in the ordered key list, 0 when it is not there.
KeyIndex(keys, key) ==
  IF \E i \in 1..Len(keys) : keys[i] = key
    THEN CHOOSE i \in 1..Len(keys) : keys[i] = key /\ \A j \in 1..(i - 1) : keys[j] # key
    ELSE 0

\* MapSetPairs that never looks the key up.
MapSetPairs_AlwaysAppend(keys, kids, key, val) ==
  [keys |-> Append(keys, key), kids |-> Append(kids, val)]

\* mapSetValueForKey on the ordered pair list: an existing key keeps its
\* position and gets the new value, a new key is appended.
MapSetPairs(keys, kids, key, val) ==
  LET i == KeyIndex(keys, key)
  IN  IF i = 0
        THEN [keys |-> Append(keys, key), kids |-> Append(kids, val)]
        ELSE [keys |-> keys, kids |-> [kids EXCEPT ![i] = val]]

\* ------------------------------------------------------------ chunk types

BINARYCHUNK_NULL == 0

BINARYCHUNK_VALUE == 1

BINARYCHUNK_ARRAY == 2

BINARYCHUNK_MAP == 3

BINARYCHUNK_BINARYDATA == 4

\* The size and type fields that start every chunk: sizeof(uint32_t) + sizeof(uint8_t).
ChunkPrefix == 5

\* ---------------------------------------------------------- binary encoder

\* Chunk with the size field counting the type byte too.
Chunk_SizeCountsType(t, payload, big) ==
  HostStore(wexpr_uint32ToBig(N(Len(payload) + 1), big), big) \o <<t>> \o payload

\* One chunk: the size of the payload as a big-endian uint32, the type, the payload.
Chunk(t, payload, big) ==
  HostStore(wexpr_uint32ToBig(N(Len(payload)), big), big) \o <<t>> \o payload

RECURSIVE EncodeExpr(_, _)
RECURSIVE EncodeKids(_, _, _, _)

\* The chunks of an Array's children, or of a Map's key/value pairs, from index i on.
EncodeKids(e, i, isMap, big) ==
  IF i > Len(e.kids) THEN <<>>
  ELSE (IF isMap THEN Chunk(BINARYCHUNK_VALUE, e.keys[i], big) ELSE <<>>)
         \o EncodeExpr(e.kids[i], big) \o EncodeKids(e, i + 1, isMap, big)

EncodeExpr(e, big) ==
  CASE e.type = "Value" -> Chunk(BINARYCHUNK_VALUE, e.bytes, big)
    [] e.type = "BinaryData" -> Chunk(BINARYCHUNK_BINARYDATA, e.bytes, big)
    [] e.type = "Array" -> Chunk(BINARYCHUNK_ARRAY, EncodeKids(e, 1, FALSE, big), big)
    [] e.type = "Map" -> Chunk(BINARYCHUNK_MAP, EncodeKids(e, 1, TRUE, big), big)
    [] OTHER -> Chunk(BINARYCHUNK_NULL, <<>>, big)

\* wexpr_Expression_createBinaryRepresentation: the buffer and its byte size.
wexpr_Expression_createBinaryRepresentation(e, big) == EncodeExpr(e, big)

\* ---------------------------------------------------------- binary decoder

Decoded(e, c, u) == [expr |-> e, code |-> c, used |-> u]

DecodeFail(c) == Decoded(NullPtr, c, 0)

RECURSIVE BuildMap(_, _, _, _)

\* The Map of the decoded children k1 v1 k2 v2 ..., built by mapSetValueForKey.
BuildMap(kids, i, keys, vals) ==
  IF i > Len(kids) THEN MapExpr(keys, vals)
  ELSE LET m == MapSetPairs(keys, vals, kids[i].bytes, kids[i + 1])
       IN  BuildMap(kids, i + 2, m.keys, m.kids)

RECURSIVE DecodeChunk(_, _)
RECURSIVE DecodeKids(_, _)

\* The chunks that fill payload exactly, in order.
DecodeKids(payload, big) ==
  IF payload = <<>> THEN [kids |-> <<>>, code |-> ErrNone]
  ELSE LET c == DecodeChunk(payload, big)
       IN  IF c.code # ErrNone THEN [kids |-> <<>>, code |-> c.code]
           ELSE LET rest == DecodeKids(SubSeq(payload, c.used + 1, Len(payload)), big)
                IN  IF rest.code # ErrNone THEN rest
                    ELSE [kids |-> <<c.expr>> \o rest.kids, code |-> ErrNone]

\* The chunk at the start of buf, where Len(buf) is the length supplied.
DecodeChunk(buf, big) ==
  IF Len(buf) < ChunkPrefix THEN DecodeFail(ErrOverflow)
  ELSE
    LET size == wexpr_bigUInt32ToNative(HostRead(SubSeq(buf, 1, 4), big), big)
        type == buf[5]
    IN  IF Lt(N(Len(buf) - ChunkPrefix), size) THEN DecodeFail(ErrOverflow)
        ELSE IF type > BINARYCHUNK_BINARYDATA THEN DecodeFail(ErrUnknownType)
        ELSE
          LET s == Small(size)
              payload == SubSeq(buf, ChunkPrefix + 1, ChunkPrefix + s)
              used == ChunkPrefix + s
          IN  CASE type = BINARYCHUNK_NULL -> Decoded(NullExpr, ErrNone, used)
                [] type = BINARYCHUNK_VALUE -> Decoded(ValueExpr(payload), ErrNone, used)
                [] type = BINARYCHUNK_BINARYDATA -> Decoded(BinaryExpr(payload), ErrNone, used)
                [] type = BINARYCHUNK_ARRAY ->
                     LET k == DecodeKids(payload, big)
                     IN  IF k.code # ErrNone THEN DecodeFail(k.code)
                         ELSE Decoded(ArrayExpr(k.kids), ErrNone, used)
                [] type = BINARYCHUNK_MAP ->
                     LET k == DecodeKids(payload, big)
                     IN  IF k.code # ErrNone THEN DecodeFail(k.code)
                         ELSE IF Len(k.kids) % 2 # 0
                                 \/ \E i \in 1..Len(k.kids) :
                                      i % 2 = 1 /\ k.kids[i].type # "Value"
                           THEN DecodeFail(ErrNotMap)
                           ELSE Decoded(BuildMap(k.kids, 1, <<>>, <<>>), ErrNone, used)

\* ------------------------------------------------------------- tool state

VARIABLES
  input,     \* inputStr: the bytes read from the input path
  cmd,       \* results.command
  bits,      \* the build's width of size_t: 32 or 64
  big,       \* whether the build's host is big-endian
  pc,        \* where main is: "start", "scan", "report", "done", "crashed"
  curPos,    \* the scan's position (a size_t)
  expr,      \* the expression pointer, NullPtr when null
  err,       \* the WexprError
  out,       \* what was written to the output path, in order
  errOut,    \* what was written to stderr, in order
  exit,      \* "running", "EXIT_SUCCESS", "EXIT_FAILURE", or "signal" after a crash
  calls,     \* history: the decoder calls of this run, [pos, len]
  decLog,    \* history: for each of them, err.code before it and the code it set
  parsed,    \* history: the inputs handed to the text parser in this run
  readTo,    \* history: the highest input offset the scan has read, -1 for none
  iters,     \* history: the iterations of the scan's loop begun, up to MaxIters
  run,       \* the number of this run of the tool
  mapKeys,   \* a Map's ordered pair list: the keys ...
  mapVals,   \* ... and the value nodes
  mapIndex,  \* a Map's key index: key -> value node, 0 for no entry
  setLog,    \* history: the mapSetValueForKey calls made, <<key, node>>
  tree,      \* the expression handed to the binary encoder
  encBuffer, \* the buffer wexpr_Expression_createBinaryRepresentation returned
  decoded,   \* what wexpr_Expression_createFromBinaryChunk returned for it
  cpc        \* where the codec's caller is: "idle", "tree", "encoded", "decoded"

toolVars == <<input, cmd, bits, big, pc, curPos, expr, err, out, errOut, exit,
              calls, decLog, parsed, readTo, iters, run>>

mapVars == <<mapKeys, mapVals, mapIndex, setLog>>

codecVars == <<tree, encBuffer, decoded, cpc>>

vars == <<toolVars, mapVars, codecVars>>

\* ---------------------------------------------------------------- inputs

Commands == {"Validate", "HumanReadable", "Mini", "Binary"}

AllCommands == Commands \cup {"Unknown"}

\* The builds: the width of size_t and the host's byte order.
Builds == {<<64, FALSE>>, <<32, FALSE>>, <<64, TRUE>>, <<32, TRUE>>}

ValidHeader == <<131, 66, 87, 69, 88, 80, 82, 10, 0, 0, 0, 1, 0, 0, 0, 0, 0, 0, 0, 0>>

HeaderSize == 20

\* Another byte than b.
Other(b) == IF b = 1 THEN 2 ELSE 1

\* The valid header with the bytes at the offsets of S changed.
Deviate(S) == [i \in 1..HeaderSize |-> IF (i - 1) \in S THEN Other(ValidHeader[i]) ELSE ValidHeader[i]]

DeviantHeaders ==
  {Deviate(S) : S \in {T \in SUBSET (0..(HeaderSize - 1)) : Cardinality(T) \in 1..MaxDev}}

NullChunk == <<0, 0, 0, 0, 0>>

\* Well-framed top-level chunks: expression chunks that decode, one that does
\* not (an Array whose child has type 9), and an auxiliary chunk.
CoreFrames ==
  { NullChunk,
    <<0, 0, 0, 1, 1, 97>>,
    <<0, 0, 0, 11, 3, 0, 0, 0, 1, 1, 97, 0, 0, 0, 0, 0>>,
    <<0, 0, 0, 5, 2, 0, 0, 0, 0, 9>>,
    <<0, 0, 0, 1, 5, 7>> }

\* Ends of a file that are not a whole chunk: a size that runs past the end
\* (by 1, by 8, by nearly 2^32), stray bytes, and a Map of one child.
RaggedEnds ==
  { <<0, 0, 0, 2, 1, 97>>,
    <<0, 0, 0, 9, 1, 97>>,
    <<255, 255, 255, 255, 1>>,
    <<255, 255, 255, 251, 9>>,
    <<0, 0>>,
    <<0, 0, 0, 0>>,
    <<0, 0, 0, 6, 3, 0, 0, 0, 1, 1, 97>> }

RECURSIVE FrameSeqs(_)

\* The concatenations of at most k core frames.
FrameSeqs(k) ==
  IF k = 0 THEN {<<>>}
  ELSE LET shorter == FrameSeqs(k - 1)
       IN  shorter \cup {b \o f : b \in shorter, f \in CoreFrames}

Bodies ==
  FrameSeqs(MaxChunks) \cup {b \o r : b \in FrameSeqs(MaxChunks - 1), r \in RaggedEnds}

TextInputs == {<<>>, <<110, 117, 108, 108>>, <<35, 40, 97, 41>>, <<130>>, <<255, 66>>}

Inputs ==
  TextInputs
    \cup {ValidHeader \o b : b \in Bodies}
    \cup {h \o b : h \in DeviantHeaders, b \in {<<>>, NullChunk}}
    \cup {SubSeq(ValidHeader, 1, k) : k \in 1..(HeaderSize - 1)}

\* Trees the text parser may return.
SampleTrees ==
  { InvalidExpr, NullExpr, ValueExpr(<<97>>), BinaryExpr(<<7>>),
    ArrayExpr(<<NullExpr, ValueExpr(<<98>>)>>),
    MapExpr(<< <<97>>, <<98>> >>, <<ArrayExpr(<<>>), NullExpr>>) }

TextErrors == {"ExtraDataAfterParsingRoot", "StringMissingEndingQuote"}

DecoderErrors == {ErrOverflow, ErrUnknownType, ErrNotMap}

\* What a read outside the input's buffer may find.
OOBBytes == {0, 1, 255}

\* ------------------------------------------------------------ tool driver

Max(a, b) == IF a >= b THEN a ELSE b

\* The history of decoder calls, kept to MaxLog entries.
Logged(log, c) == IF Len(log) < MaxLog THEN Append(log, c) ELSE log

\* IsBinary with inputStr[0] compared as a signed char.
IsBinary_SignedChar(data) ==
  Len(data) >= 1 /\ (IF data[1] >= 128 THEN data[1] - 256 ELSE data[1]) = 131

\* inputStr.size() >= 1 && static_cast<unsigned char>(inputStr[0]) == 0x83
IsBinary(data) == Len(data) >= 1 /\ data[1] = 131

magic == <<131, 66, 87, 69, 88, 80, 82, 10>>

reserved == <<0, 0, 0, 0, 0, 0, 0, 0>>

\* HeaderCheck with the reserved bytes compared over four bytes only.
HeaderCheck_ShortReserved(data, isBig) ==
  IF Len(data) < HeaderSize
    THEN Error(ErrInvalidHeader, "Invalid binary header - not big enough")
  ELSE IF SubSeq(data, 1, 8) # magic
    THEN Error(ErrInvalidHeader, "Invalid binary header - invalid magic")
  ELSE IF HostRead(SubSeq(data, 9, 12), isBig) # wexpr_uint32ToBig(N(1), isBig)
    THEN Error(ErrUnknownVersion, "Invalid binary header - unknown version")
  ELSE IF SubSeq(data, 13, 16) # SubSeq(reserved, 1, 4)
    THEN Error(ErrInvalidHeader, "Invalid binary header - unknown reserved bits")
  ELSE WEXPR_ERROR_INIT

\* HeaderCheck with the reserved bytes checked before the version.
HeaderCheck_ReservedFirst(data, isBig) ==
  IF Len(data) < HeaderSize
    THEN Error(ErrInvalidHeader, "Invalid binary header - not big enough")
  ELSE IF SubSeq(data, 1, 8) # magic
    THEN Error(ErrInvalidHeader, "Invalid binary header - invalid magic")
  ELSE IF SubSeq(data, 13, 20) # reserved
    THEN Error(ErrInvalidHeader, "Invalid binary header - unknown reserved bits")
  ELSE IF HostRead(SubSeq(data, 9, 12), isBig) # wexpr_uint32ToBig(N(1), isBig)
    THEN Error(ErrUnknownVersion, "Invalid binary header - unknown version")
  ELSE WEXPR_ERROR_INIT

\* The header checks of the binary path, in the code's order: the error they
\* end with, or no error.
HeaderCheck(data, isBig) ==
  IF Len(data) < HeaderSize
    THEN Error(ErrInvalidHeader, "Invalid binary header - not big enough")
  ELSE IF SubSeq(data, 1, 8) # magic
    THEN Error(ErrInvalidHeader, "Invalid binary header - invalid magic")
  ELSE IF HostRead(SubSeq(data, 9, 12), isBig) # wexpr_uint32ToBig(N(1), isBig)
    THEN Error(ErrUnknownVersion, "Invalid binary header - unknown version")
  ELSE IF SubSeq(data, 13, 20) # reserved
    THEN Error(ErrInvalidHeader, "Invalid binary header - unknown reserved bits")
  ELSE WEXPR_ERROR_INIT

\* FileHeader with the version stored in the host's byte order.
FileHeader_HostOrderVersion(isBig) ==
  LET version == HostStore(N(1), isBig)
  IN  [i \in 1..HeaderSize |->
         IF i <= 8 THEN magic[i]
         ELSE IF i <= 12 THEN version[i - 8]
         ELSE 0]

\* The 20 bytes s_writeAllOutputWithFileHeaderTo writes before the main chunk.
FileHeader(isBig) ==
  LET zeroed == [i \in 1..HeaderSize |-> 0]
      version == HostStore(wexpr_uint32ToBig(N(1), isBig), isBig)
  IN  [i \in 1..HeaderSize |->
         IF i <= 8 THEN magic[i]
         ELSE IF i <= 12 THEN version[i - 8]
         ELSE zeroed[i]]

\* What the output path or stderr received in one write.
Written(k, t, e, b) == [kind |-> k, text |-> t, expr |-> e, bytes |-> b]

\* s_writeAllOutputWithFileHeaderTo: the header, then the buffer.
s_writeAllOutputWithFileHeaderTo(buffer, isBig) ==
  Written("bytes", "", NullPtr, FileHeader(isBig) \o buffer)

\* wexpr_Expression_createStringRepresentation, kept as the flag and the tree.
StringRepresentation(e, flag) == Written("text", flag, e, <<>>)

\* What wexpr_Expression_createFromLengthString may return.
ParserOutcomes ==
  {[expr |-> t, code |-> ErrNone] : t \in SampleTrees}
    \cup {[expr |-> NullPtr, code |-> c] : c \in TextErrors \cup {ErrNone}}

\* The bytes a read at offset o of the input's buffer may find: the input,
\* then the string's terminator, then whatever lies behind the buffer.
MemAt(data, o) ==
  IF o < Len(data) THEN {data[o + 1]}
  ELSE IF o = Len(data) THEN {0}
  ELSE OOBBytes

Outcome(e, c, crash) == [expr |-> e, code |-> c, crash |-> crash]

\* What wexpr_Expression_createFromBinaryChunk (data + p, len, &err) may do.
\* Within the buffer it decodes; a length that runs past the buffer lets it
\* read out of bounds: it may crash, fail, or return a tree of what it found.
DecoderOutcomes(data, p, len, isBig) ==
  IF IsSmall(len) /\ p + Small(len) <= Len(data) + 1
    THEN LET d == DecodeChunk(SubSeq(data \o <<0>>, p + 1, p + Small(len)), isBig)
         IN  {Outcome(d.expr, d.code, FALSE)}
    ELSE {Outcome(NullPtr, ErrNone, TRUE)}
           \cup {Outcome(NullPtr, c, FALSE) : c \in DecoderErrors}
           \cup {Outcome(e, ErrNone, FALSE) : e \in {NullExpr, ValueExpr(<<97, 0>>)}}

ToolInit ==
  /\ input \in Inputs
  /\ cmd \in AllCommands
  /\ \E b \in Builds : bits = b[1] /\ big = b[2]
  /\ pc = "start"
  /\ curPos = N(0)
  /\ expr = NullPtr
  /\ err = WEXPR_ERROR_INIT
  /\ out = <<>>
  /\ errOut = <<>>
  /\ exit = "running"
  /\ calls = <<>>
  /\ decLog = <<>>
  /\ parsed = <<>>
  /\ readTo = -1
  /\ iters = 0
  /\ run = 1

\* main, lines 141-145 and 325-329: a command that is none of the four.
UnknownCommand ==
  /\ pc = "start"
  /\ cmd \notin Commands
  /\ pc' = "done"
  /\ errOut' = Append(errOut, "WexprTool: Unknown command")
  /\ exit' = "EXIT_FAILURE"
  /\ UNCHANGED <<input, cmd, bits, big, curPos, expr, err, out, calls, decLog, parsed, readTo, iters, run>>

\* main, lines 159-206: the binary path's header checks.
ReadHeader ==
  /\ pc = "start"
  /\ cmd \in Commands
  /\ IsBinary(input)
  /\ LET e == HeaderCheck(input, big)
     IN  IF e.code # ErrNone
           THEN /\ err' = e
                /\ pc' = "report"
                /\ UNCHANGED curPos
           ELSE /\ err' = err
                /\ pc' = "scan"
                /\ curPos' = N(HeaderSize)
  /\ UNCHANGED <<input, cmd, bits, big, expr, out, errOut, exit, calls, decLog, parsed, readTo, iters, run>>

\* main, lines 240-248: the text path.
ParseText ==
  /\ pc = "start"
  /\ cmd \in Commands
  /\ ~IsBinary(input)
  /\ \E r \in ParserOutcomes :
       /\ expr' = r.expr
       /\ err' = IF r.code # ErrNone THEN Error(r.code, "parse error") ELSE err
  /\ parsed' = Append(parsed, input)
  /\ pc' = "report"
  /\ UNCHANGED <<input, cmd, bits, big, curPos, out, errOut, exit, calls, decLog, readTo, iters, run>>

\* IsExpressionChunk with the bound one too high.
IsExpressionChunk_UpTo5(type) == type <= BINARYCHUNK_BINARYDATA + 1

\* main, line 217: whether a chunk of this type holds an expression.
IsExpressionChunk(type) == type <= BINARYCHUNK_BINARYDATA

\* HasExpression with the check left out.
HasExpression_Never(e) == FALSE

\* main, line 220: if (expr), whether an expression was created already.
HasExpression(e) == e # NullPtr

\* FailsWith with the test of the error code left out.
FailsWith_Never(e) == FALSE

\* main, line 251: if (err.code), whether the run ended with an error.
FailsWith(e) == e.code # ErrNone

\* main, line 230: the length handed to the decoder for a size field.
ChunkLength(size, width) == AsSizeT(Add(size, N(ChunkPrefix)), width)

\* NextPos for a size field that counts the type byte too.
NextPos_SizeCountsType(pos, size, width) ==
  AsSizeT(Add(AsSizeT(Add(pos, N(ChunkPrefix - 1)), width), size), width)

\* main, lines 236-237: the position after a chunk.
NextPos(pos, size, width) ==
  AsSizeT(Add(AsSizeT(Add(pos, N(ChunkPrefix)), width), size), width)

\* main, lines 208-238: one iteration of the top-level chunk scan.
ScanStep ==
  /\ pc = "scan"
  /\ Lt(curPos, N(Len(input)))
  /\ LET p == Small(curPos)
     IN  \E b1 \in MemAt(input, p), b2 \in MemAt(input, p + 1),
            b3 \in MemAt(input, p + 2), b4 \in MemAt(input, p + 3),
            type \in MemAt(input, p + 4), crash \in BOOLEAN :
           LET size == wexpr_bigUInt32ToNative(HostRead(<<b1, b2, b3, b4>>, big), big)
               len == ChunkLength(size, bits)
           IN  /\ crash => p + 4 > Len(input)
               /\ readTo' = Max(readTo, p + 4)
               /\ iters' = IF iters < MaxIters THEN iters + 1 ELSE iters
               /\ IF crash
                    THEN /\ pc' = "crashed"
                         /\ exit' = "signal"
                         /\ UNCHANGED <<curPos, expr, err, calls, decLog>>
                  ELSE IF IsExpressionChunk(type)
                    THEN IF HasExpression(expr)
                           THEN /\ err' = Error(ErrMultiple, "Found multiple expression chunks")
                                /\ pc' = "report"
                                /\ UNCHANGED <<curPos, expr, calls, decLog, exit>>
                           ELSE \E r \in DecoderOutcomes(input, p, len, big) :
                                  /\ calls' = Logged(calls, [pos |-> curPos, len |-> len])
                                  /\ decLog' = Logged(decLog, [before |-> err.code,
                                                               code |-> r.code])
                                  /\ IF r.crash
                                       THEN /\ pc' = "crashed"
                                            /\ exit' = "signal"
                                            /\ UNCHANGED <<curPos, expr, err>>
                                       ELSE /\ expr' = r.expr
                                            /\ err' = IF r.code # ErrNone
                                                        THEN Error(r.code, "decode error")
                                                        ELSE err
                                            /\ curPos' = NextPos(curPos, size, bits)
                                            /\ UNCHANGED <<pc, exit>>
                    ELSE /\ curPos' = NextPos(curPos, size, bits)
                         /\ UNCHANGED <<pc, expr, err, calls, decLog, exit>>
  /\ UNCHANGED <<input, cmd, bits, big, out, errOut, parsed, run>>

\* main, line 208: the scan's loop ends.
ScanEnd ==
  /\ pc = "scan"
  /\ ~Lt(curPos, N(Len(input)))
  /\ pc' = "report"
  /\ UNCHANGED <<input, cmd, bits, big, curPos, expr, err, out, errOut, exit, calls, decLog,
                 parsed, readTo, iters, run>>

\* What main writes for an expression and a command, lines 286-320.
Converted(c, e, isBig) ==
  CASE c = "Validate" -> Written("text", "true\n", NullPtr, <<>>)
    [] c = "HumanReadable" -> StringRepresentation(e, "WexprWriteFlagHumanReadable")
    [] c = "Mini" -> StringRepresentation(e, "WexprWriteFlagNone")
    [] OTHER ->
         s_writeAllOutputWithFileHeaderTo(wexpr_Expression_createBinaryRepresentation(e, isBig), isBig)

\* main, lines 251-331: the error report, or the conversion and its output.
Report ==
  /\ pc = "report"
  /\ pc' = "done"
  /\ IF FailsWith(err)
       THEN /\ exit' = "EXIT_FAILURE"
            /\ IF cmd = "Validate"
                 THEN /\ out' = Append(out, Written("text", "false\n", NullPtr, <<>>))
                      /\ UNCHANGED errOut
                 ELSE /\ errOut' = errOut \o <<"WexprTool: Error occurred with wexpr:", err.message>>
                      /\ UNCHANGED out
     ELSE IF expr = NullPtr
       THEN /\ exit' = "EXIT_FAILURE"
            /\ IF cmd = "Validate"
                 THEN /\ out' = Append(out, Written("text", "false\n", NullPtr, <<>>))
                      /\ UNCHANGED errOut
                 ELSE /\ errOut' = Append(errOut, "WexprTool: Got an empty expression back")
                      /\ UNCHANGED out
     ELSE /\ exit' = "EXIT_SUCCESS"
          /\ out' = Append(out, Converted(cmd, expr, big))
          /\ UNCHANGED errOut
  /\ UNCHANGED <<input, cmd, bits, big, curPos, expr, err, calls, decLog, parsed, readTo, iters, run>>

\* The tool is run again, on the file its binary command has just written.
Rerun ==
  /\ pc = "done"
  /\ run < MaxRuns
  /\ cmd = "Binary"
  /\ exit = "EXIT_SUCCESS"
  /\ input' = out[1].bytes
  /\ cmd' \in Commands
  /\ pc' = "start"
  /\ curPos' = N(0)
  /\ expr' = NullPtr
  /\ err' = WEXPR_ERROR_INIT
  /\ out' = <<>>
  /\ errOut' = <<>>
  /\ exit' = "running"
  /\ calls' = <<>>
  /\ decLog' = <<>>
  /\ parsed' = <<>>
  /\ readTo' = -1
  /\ iters' = 0
  /\ run' = run + 1
  /\ UNCHANGED <<bits, big>>

\* ------------------------------------------------------------- the Map API

\* The keys the map's callers use.
MapKeyUniverse == {<<97>>, <<98>>, <<97, 98>>}

\* The key index of an ordered pair list: each key's value node, 0 for none.
RebuildIndex(keys, vals) ==
  [k \in MapKeyUniverse |->
     IF KeyIndex(keys, k) = 0 THEN 0 ELSE vals[KeyIndex(keys, k)]]

wexpr_Expression_mapCount == Len(mapKeys)

wexpr_Expression_mapKeyAt(i) == mapKeys[i]

wexpr_Expression_mapValueAt(i) == mapVals[i]

\* The value node for a key, 0 (null) when the map has none.
wexpr_Expression_mapValueForKey(k) == mapIndex[k]

\* No tool runs while the Map API is exercised.
ToolIdle ==
  /\ input = <<>>
  /\ cmd = "Unknown"
  /\ bits = 64
  /\ big = FALSE
  /\ pc = "idle"
  /\ curPos = N(0)
  /\ expr = NullPtr
  /\ err = WEXPR_ERROR_INIT
  /\ out = <<>>
  /\ errOut = <<>>
  /\ exit = "running"
  /\ calls = <<>>
  /\ decLog = <<>>
  /\ parsed = <<>>
  /\ readTo = -1
  /\ iters = 0
  /\ run = 0

\* An empty Map, as wexpr_Expression_changeType leaves it.
MapEmpty ==
  /\ mapKeys = <<>>
  /\ mapVals = <<>>
  /\ mapIndex = RebuildIndex(<<>>, <<>>)
  /\ setLog = <<>>

\* wexpr_Expression_mapSetValueForKey (self, key, value), value a node the
\* caller has just created.
MapSetValueForKey(key) ==
  /\ Len(setLog) < MaxSets
  /\ LET value == Len(setLog) + 1
         m == MapSetPairs(mapKeys, mapVals, key, value)
     IN  /\ mapKeys' = m.keys
         /\ mapVals' = m.kids
         /\ mapIndex' = RebuildIndex(m.keys, m.kids)
         /\ setLog' = Append(setLog, [key |-> key, node |-> value])

\* No caller of the codec is at work.
CodecIdle ==
  /\ tree = NullPtr
  /\ encBuffer = <<>>
  /\ decoded = DecodeFail(ErrNone)
  /\ cpc = "idle"

MapInit == ToolIdle /\ MapEmpty /\ CodecIdle

MapNext ==
  \E key \in MapKeyUniverse : MapSetValueForKey(key) /\ UNCHANGED <<toolVars, codecVars>>

MapSpec == MapInit /\ [][MapNext]_vars

\* No Map is in use while the tool runs.
MapIdle ==
  /\ mapKeys = <<>>
  /\ mapVals = <<>>
  /\ mapIndex = <<>>
  /\ setLog = <<>>

\* ------------------------------------------------- the codec's round trip

\* The depth to which the trees handed to the encoder are nested.
MaxDepth == 2

\* Childless trees: Value and BinaryData of the same bytes, an empty Value, a NUL.
Leaves ==
  {NullExpr, ValueExpr(<<>>), ValueExpr(<<97>>), BinaryExpr(<<97>>), BinaryExpr(<<0, 255>>)}

RECURSIVE Trees(_)

\* Well-formed trees nested to depth d at most: Arrays of up to two children
\* and Maps of up to two distinct keys.
Trees(d) ==
  IF d = 0 THEN Leaves
  ELSE LET sub == Trees(d - 1)
           keys == {<<97>>, <<98, 0>>}
           pairs == {p \in keys \X keys : p[1] # p[2]}
       IN  Leaves \cup {ArrayExpr(<<>>), MapExpr(<<>>, <<>>)}
             \cup {ArrayExpr(<<t>>) : t \in sub}
             \cup {ArrayExpr(<<t, l>>) : t \in sub, l \in Leaves}
             \cup {ArrayExpr(<<l, t>>) : t \in sub, l \in Leaves}
             \cup {MapExpr(<<k>>, <<t>>) : k \in keys, t \in sub}
             \cup {MapExpr(<<p[1], p[2]>>, <<t, NullExpr>>) : p \in pairs, t \in sub}
             \cup {MapExpr(<<p[1], p[2]>>, <<ValueExpr(p[1]), t>>) : p \in pairs, t \in sub}

\* The trees the codec's callers hand over: the well-formed ones, and trees
\* with an Invalid node.
CodecTrees == Trees(MaxDepth) \cup {InvalidExpr, ArrayExpr(<<InvalidExpr>>)}

CodecInit ==
  /\ input = <<>>
  /\ cmd = "Unknown"
  /\ \E b \in Builds : bits = b[1] /\ big = b[2]
  /\ pc = "idle"
  /\ curPos = N(0)
  /\ expr = NullPtr
  /\ err = WEXPR_ERROR_INIT
  /\ out = <<>>
  /\ errOut = <<>>
  /\ exit = "running"
  /\ calls = <<>>
  /\ decLog = <<>>
  /\ parsed = <<>>
  /\ readTo = -1
  /\ iters = 0
  /\ run = 0
  /\ tree \in CodecTrees
  /\ encBuffer = <<>>
  /\ decoded = DecodeFail(ErrNone)
  /\ cpc = "tree"
  /\ MapIdle

\* buffer = wexpr_Expression_createBinaryRepresentation (tree)
CodecEncode ==
  /\ cpc = "tree"
  /\ encBuffer' = wexpr_Expression_createBinaryRepresentation(tree, big)
  /\ cpc' = "encoded"
  /\ UNCHANGED <<tree, decoded>>

\* wexpr_Expression_createFromBinaryChunk (buffer.data, buffer.byteSize, &err)
CodecDecode ==
  /\ cpc = "encoded"
  /\ decoded' = DecodeChunk(encBuffer, big)
  /\ cpc' = "decoded"
  /\ UNCHANGED <<tree, encBuffer>>

CodecNext ==
  \/ CodecEncode /\ UNCHANGED <<toolVars, mapVars>>
  \/ CodecDecode /\ UNCHANGED <<toolVars, mapVars>>

CodecSpec == CodecInit /\ [][CodecNext]_vars

Init == ToolInit /\ MapIdle /\ CodecIdle

Next ==
  \/ UnknownCommand /\ UNCHANGED <<mapVars, codecVars>>
  \/ ReadHeader /\ UNCHANGED <<mapVars, codecVars>>
  \/ ParseText /\ UNCHANGED <<mapVars, codecVars>>
  \/ ScanStep /\ UNCHANGED <<mapVars, codecVars>>
  \/ ScanEnd /\ UNCHANGED <<mapVars, codecVars>>
  \/ Report /\ UNCHANGED <<mapVars, codecVars>>
  \/ Rerun /\ UNCHANGED <<mapVars, codecVars>>

Spec == Init /\ [][Next]_vars

\* ------------------------------------------------------------------ claims

\* Whether a byte of data at one of the offsets S differs from the valid header's.
DevAt(data, S) == \E o \in S : o < Len(data) /\ data[o + 1] # ValidHeader[o + 1]

HeaderDiffers(data) == Len(data) < Len(ValidHeader) \/ DevAt(data, 0..19)

HasValidHeader(data) ==
  Len(data) >= Len(ValidHeader) /\ SubSeq(data, 1, Len(ValidHeader)) = ValidHeader

\* The error kind a deviating header is to end with: the first field that deviates decides.
ExpectedHeaderError(data, magicOffsets) ==
  IF Len(data) < Len(ValidHeader) \/ DevAt(data, magicOffsets) THEN "BinaryInvalidHeader"
  ELSE IF DevAt(data, 8..11) THEN "BinaryUnknownVersion"
  ELSE "BinaryInvalidHeader"

\* C1 as stated: every input of at least one byte whose header differs from the
\* valid header ends with BinaryInvalidHeader (magic, offsets 0..7, or reserved)
\* or BinaryUnknownVersion (version), and no expression is created.  Read in
\* the claim's favour: the input holds 20 bytes or starts with 0x83.
C1_AnyDeviationIsHeaderError ==
  (pc = "done" /\ cmd \in Commands /\ Len(input) >= 1 /\ HeaderDiffers(input)
     /\ (Len(input) >= Len(ValidHeader) \/ input[1] = 131))
    => /\ expr = NullPtr
       /\ err.code = ExpectedHeaderError(input, 0..7)

\* C1, amended: every input whose first byte is 0x83 and whose 20-byte header
\* differs from the valid header ends with an error and no expression, no
\* decoder or parser call and a failure exit: BinaryInvalidHeader when the input
\* is shorter than 20 bytes or a magic byte at offsets 1..7 deviates, otherwise
\* BinaryUnknownVersion when the version deviates, otherwise BinaryInvalidHeader.
C1_HeaderErrors ==
  (pc = "done" /\ cmd \in Commands /\ Len(input) >= 1 /\ input[1] = 131
     /\ HeaderDiffers(input))
    => /\ expr = NullPtr
       /\ err.code = ExpectedHeaderError(input, 1..7)
       /\ calls = <<>>
       /\ parsed = <<>>
       /\ exit = "EXIT_FAILURE"

\* C1's case: the last reserved byte flipped to 0x01 has ended in BinaryInvalidHeader.
C1_Witness ==
  /\ pc = "done"
  /\ cmd \in Commands
  /\ Len(input) >= 20
  /\ SubSeq(input, 1, 19) = SubSeq(ValidHeader, 1, 19)
  /\ input[20] = 1
  /\ err.code = "BinaryInvalidHeader"

RECURSIVE FramesFrom(_, _)

\* The top-level chunks of data from offset p on that lie wholly within data,
\* each of 5 + size bytes, and whether they fill the rest of data exactly.
FramesFrom(data, p) ==
  IF p = Len(data) THEN [ok |-> TRUE, chunks |-> <<>>]
  ELSE IF p + 5 > Len(data) THEN [ok |-> FALSE, chunks |-> <<>>]
  ELSE LET sz == ValueOf(SubSeq(data, p + 1, p + 4))
       IN  IF ~IsSmall(sz) \/ p + 5 + Small(sz) > Len(data)
             THEN [ok |-> FALSE, chunks |-> <<>>]
             ELSE LET rest == FramesFrom(data, p + 5 + Small(sz))
                  IN  [ok |-> rest.ok,
                       chunks |-> <<[pos |-> p, size |-> Small(sz), type |-> data[p + 5]]>>
                                    \o rest.chunks]

\* The top-level chunks of a file with a valid header.
TopChunks(data) == FramesFrom(data, 20)

\* The positions in a chunk list of the chunks with a type code in 0x00..0x04.
ExpressionChunks(chunks) == {i \in 1..Len(chunks) : chunks[i].type <= 4}

\* The bytes of a chunk of data.
ChunkBytes(data, c) == SubSeq(data, c.pos + 1, c.pos + 5 + c.size)

FirstOf(S) == CHOOSE i \in S : \A j \in S : i <= j

\* C2 as stated: a valid header and two or more top-level chunks with a type
\* code in 0x00..0x04 end with BinaryMultipleExpressions and a non-zero exit,
\* whatever the chunks hold.
C2_TwoExpressionChunksAlwaysMultiple ==
  (pc = "done" /\ cmd \in Commands /\ HasValidHeader(input)
     /\ Cardinality(ExpressionChunks(TopChunks(input).chunks)) >= 2)
    => /\ err.code = "BinaryMultipleExpressions"
       /\ exit = "EXIT_FAILURE"

\* C2, amended: a valid header and two or more top-level chunks with a type code
\* in 0x00..0x04, the first of which decodes without error, end with
\* BinaryMultipleExpressions and a non-zero exit, whatever lies between them.
C2_SecondExpressionChunkIsMultiple ==
  LET t == TopChunks(input)
      first == t.chunks[FirstOf(ExpressionChunks(t.chunks))]
  IN  (pc = "done" /\ cmd \in Commands /\ HasValidHeader(input)
         /\ Cardinality(ExpressionChunks(t.chunks)) >= 2
         /\ DecodeChunk(ChunkBytes(input, first), big).code = "None")
        => /\ err.code = "BinaryMultipleExpressions"
           /\ exit = "EXIT_FAILURE"

\* C2's case: a Null chunk, an auxiliary chunk and a Value chunk have ended in
\* BinaryMultipleExpressions.
C2_Witness ==
  /\ pc = "done"
  /\ input = ValidHeader \o NullChunk \o <<0, 0, 0, 1, 5, 7>> \o <<0, 0, 0, 1, 1, 97>>
  /\ err.code = "BinaryMultipleExpressions"
  /\ exit = "EXIT_FAILURE"

\* The size field at offset p of data, read big-endian.
SizeFieldAt(data, p) == ValueOf(SubSeq(data, p + 1, p + 4))

\* The scan is at a chunk whose size and type fields lie within the input.
AtChunk == pc = "scan" /\ IsSmall(curPos) /\ Small(curPos) + 5 <= Len(input)

\* C3 as stated: the size field s counts type and payload, so a chunk at p is
\* the bytes p .. p+4+s-1: the decoder is handed p and the length 4+s, and the
\* next chunk is read at p+4+s.
C3_SizeCountsTypeAndPayload ==
  [][(AtChunk /\ pc' = "scan"
        /\ IsSmall(SizeFieldAt(input, Small(curPos)))
        /\ Small(curPos) + 4 + Small(SizeFieldAt(input, Small(curPos))) <= Len(input))
       => /\ curPos' = N(Small(curPos) + 4 + Small(SizeFieldAt(input, Small(curPos))))
          /\ (calls' # calls
                => calls'[Len(calls')].len = N(4 + Small(SizeFieldAt(input, Small(curPos)))))]_vars

\* C3, amended: the size field s counts the payload only, so a chunk at p that
\* lies within the input is the bytes p .. p+5+s-1: when its type is 0x00..0x04
\* and no expression exists yet the decoder is handed exactly p and the length
\* 5+s, and the next chunk is read at p+5+s; a Null chunk has the size field 0,
\* takes 5 bytes and decodes to Null.
C3_SizeCountsPayload ==
  [][(AtChunk /\ pc' = "scan"
        /\ IsSmall(SizeFieldAt(input, Small(curPos)))
        /\ Small(curPos) + 5 + Small(SizeFieldAt(input, Small(curPos))) <= Len(input))
       => LET p == Small(curPos)
              s == Small(SizeFieldAt(input, p))
              type == input[p + 5]
          IN  /\ curPos' = N(p + 5 + s)
              /\ (type <= 4 /\ expr = NullPtr /\ Len(calls) < MaxLog)
                   => calls' = Append(calls, [pos |-> N(p), len |-> N(5 + s)])
              /\ (type = 0 /\ s = 0 /\ expr = NullPtr)
                   => (expr' = NullExpr /\ curPos' = N(p + 5))]_vars

\* C3's case: the Value chunk of 6 bytes at offset 20 was handed to the decoder
\* and the scan stands at offset 26.
C3_Witness ==
  /\ pc = "scan"
  /\ Len(input) >= 26
  /\ SubSeq(input, 21, 26) = <<0, 0, 0, 1, 1, 97>>
  /\ calls = <<[pos |-> N(20), len |-> N(6)]>>
  /\ curPos = N(26)
  /\ expr = ValueExpr(<<97>>)

\* C4 as stated: the length given to the decoder never exceeds the input bytes
\* that remain from the chunk's start, and a chunk that declares more ends in
\* BinaryChunkOverflow.
C4_DecoderLengthWithinInput ==
  /\ \A i \in DOMAIN calls :
       Le(Add(calls[i].pos, N(5)), N(Len(input)))
         => Le(Add(calls[i].pos, calls[i].len), N(Len(input)))
  /\ (pc = "done" /\ cmd \in Commands /\ HasValidHeader(input)
        /\ \E i \in DOMAIN calls :
             Lt(N(Len(input)), Add(calls[i].pos, calls[i].len)))
       => err.code = "BinaryChunkOverflow"

TrueLine == Written("text", "true\n", NullPtr, <<>>)

FalseLine == Written("text", "false\n", NullPtr, <<>>)

\* C5 as stated: for validate and every input the tool writes exactly one of
\* "true\n" (exit 0, exactly when the error kind is None and an expression
\* exists) and "false\n" (non-zero exit), and nothing else.  Read in the
\* claim's favour: the runs in which the scan itself read input bytes only.
C5_ValidateWritesTrueOrFalse ==
  (cmd = "Validate" /\ pc \in {"done", "crashed"} /\ readTo < Len(input))
    => \/ /\ out = <<TrueLine>>
          /\ exit = "EXIT_SUCCESS"
          /\ err.code = "None" /\ expr # NullPtr
       \/ /\ out = <<FalseLine>>
          /\ exit = "EXIT_FAILURE"
          /\ ~(err.code = "None" /\ expr # NullPtr)

\* C5 for the runs that reach main's report: validate writes exactly one line.
C5_ValidateWhenReported ==
  (cmd = "Validate" /\ pc = "done")
    => \/ /\ out = <<TrueLine>>
          /\ exit = "EXIT_SUCCESS"
          /\ err.code = "None" /\ expr # NullPtr
       \/ /\ out = <<FalseLine>>
          /\ exit = "EXIT_FAILURE"
          /\ ~(err.code = "None" /\ expr # NullPtr)

\* C6: for humanReadable, mini and binary, an error kind other than None means
\* nothing is ever written to the output and the tool ends with a failure exit
\* and the error on stderr; the exit is 0 only with no error, an expression,
\* and its one converted representation written.
C6_ErrorWritesNothing ==
  cmd \in {"HumanReadable", "Mini", "Binary"}
    => /\ err.code # "None" => (out = <<>> /\ exit # "EXIT_SUCCESS")
       /\ (pc = "done" /\ err.code # "None")
            => (exit = "EXIT_FAILURE" /\ errOut # <<>>)
       /\ exit = "EXIT_SUCCESS"
            => /\ err.code = "None"
               /\ expr # NullPtr
               /\ Len(out) = 1
               /\ out[1].kind = (IF cmd = "Binary" THEN "bytes" ELSE "text")
               /\ cmd # "Binary" => out[1].expr = expr
               /\ cmd = "Binary" => Len(out[1].bytes) >= 25

\* C6's case: mini has ended on a file whose chunk failed to decode, with a
\* failure exit and an empty output.
C6_Witness ==
  /\ pc = "done"
  /\ cmd = "Mini"
  /\ err.code = "BinaryUnknownType"
  /\ exit = "EXIT_FAILURE"
  /\ out = <<>>
  /\ errOut # <<>>

\* C7: the binary command writes the 20-byte header (0x83, 'BWEXPR', 0x0A,
\* version 1 big-endian, eight zero bytes) and then the encoder's buffer
\* unchanged; the tool run on that file passes every header check, hands the
\* decoder one chunk, the whole rest of the file, and ends with an expression
\* and no error.
C7_BinaryOutputReadsBack ==
  /\ (pc = "done" /\ cmd = "Binary" /\ exit = "EXIT_SUCCESS")
       => out = <<Written("bytes", "", NullPtr,
                    ValidHeader \o wexpr_Expression_createBinaryRepresentation(expr, big))>>
  /\ run > 1 => pc # "crashed"
  /\ (run > 1 /\ pc \in {"report", "done"})
       => /\ err.code = "None"
          /\ expr # NullPtr
          /\ calls = <<[pos |-> N(20), len |-> N(Len(input) - 20)]>>
          /\ curPos = N(Len(input))
          /\ parsed = <<>>

\* C7's case: the tool has validated, as true, the file its binary command
\* wrote for a Map.
C7_Witness ==
  /\ run = 2
  /\ pc = "done"
  /\ cmd = "Validate"
  /\ expr.type = "Map"
  /\ out = <<TrueLine>>

\* The one expression chunk of a well-framed file that holds exactly one.
TheExpressionChunk(data) ==
  LET t == TopChunks(data) IN t.chunks[FirstOf(ExpressionChunks(t.chunks))]

HasOneExpressionChunk(data) ==
  /\ HasValidHeader(data)
  /\ TopChunks(data).ok
  /\ Cardinality(ExpressionChunks(TopChunks(data).chunks)) = 1

\* C8: a step of the scan at a chunk with a type code above 0x04 calls no
\* decoder, sets no error and leaves the expression as it is; and a file of
\* one expression chunk with auxiliary chunks around it ends with the
\* expression and the error of that chunk alone, the decoder called once.
C8_AuxiliaryChunksIgnored ==
  /\ [][(AtChunk /\ input[Small(curPos) + 5] > 4)
          => (expr' = expr /\ err' = err /\ calls' = calls /\ pc' = "scan")]_vars
  /\ [](( pc \in {"report", "done"} /\ cmd \in Commands /\ run = 1
            /\ HasOneExpressionChunk(input))
          => LET c == TheExpressionChunk(input)
                 d == DecodeChunk(ChunkBytes(input, c), big)
             IN  /\ expr = d.expr
                 /\ err.code = d.code
                 /\ calls = <<[pos |-> N(c.pos), len |-> N(5 + c.size)]>>)

\* C8's case: a Value chunk between two auxiliary chunks has ended as that Value.
C8_Witness ==
  /\ pc = "done"
  /\ input = ValidHeader \o <<0, 0, 0, 1, 5, 7>> \o <<0, 0, 0, 1, 1, 97>> \o <<0, 0, 0, 1, 5, 7>>
  /\ expr = ValueExpr(<<97>>)
  /\ err.code = "None"
  /\ Len(calls) = 1

\* C9: once dispatched, an input that is non-empty and starts with 0x83 was
\* never handed to the text parser, and every other input, the empty one
\* included, was handed to it whole and took no step of the binary path.
C9_DispatchOnFirstByte ==
  (cmd \in Commands /\ pc # "start")
    => IF Len(input) >= 1 /\ input[1] = 131
         THEN parsed = <<>>
         ELSE /\ parsed = <<input>>
              /\ calls = <<>>
              /\ readTo = -1
              /\ curPos = N(0)
              /\ err.code \notin {"BinaryInvalidHeader", "BinaryUnknownVersion",
                                  "BinaryMultipleExpressions"}

\* C9's case: the empty input was handed to the text parser.
C9_Witness ==
  /\ pc = "done"
  /\ cmd \in Commands
  /\ input = <<>>
  /\ parsed = << <<>> >>

\* The keys set so far, and the last call that set key k.
KeysSet == {setLog[i].key : i \in DOMAIN setLog}

FirstSet(k) == CHOOSE i \in DOMAIN setLog : setLog[i].key = k /\ \A j \in 1..(i - 1) : setLog[j].key # k

LastSet(k) == CHOOSE i \in DOMAIN setLog : setLog[i].key = k /\ \A j \in (i + 1)..Len(setLog) : setLog[j].key # k

\* C10: after any mapSetValueForKey calls the keys are pairwise distinct,
\* mapCount is the number of distinct keys set, mapKeyAt lists the keys in the
\* order each was first set, and mapValueForKey(k) is the node of the latest
\* call for k, the node mapValueAt(i) of the one i with mapKeyAt(i) = k, and
\* null for a key never set.
C10_MapSetValueForKey ==
  /\ \A i, j \in 1..wexpr_Expression_mapCount :
       i # j => wexpr_Expression_mapKeyAt(i) # wexpr_Expression_mapKeyAt(j)
  /\ wexpr_Expression_mapCount = Cardinality(KeysSet)
  /\ {wexpr_Expression_mapKeyAt(i) : i \in 1..wexpr_Expression_mapCount} = KeysSet
  /\ \A i, j \in 1..wexpr_Expression_mapCount :
       i < j => FirstSet(wexpr_Expression_mapKeyAt(i)) < FirstSet(wexpr_Expression_mapKeyAt(j))
  /\ \A k \in MapKeyUniverse :
       IF k \in KeysSet
         THEN /\ wexpr_Expression_mapValueForKey(k) = setLog[LastSet(k)].node
              /\ \E i \in 1..wexpr_Expression_mapCount :
                   /\ wexpr_Expression_mapKeyAt(i) = k
                   /\ wexpr_Expression_mapValueAt(i) = wexpr_Expression_mapValueForKey(k)
         ELSE wexpr_Expression_mapValueForKey(k) = 0

\* C10's case: key "a" was set, then "b", then "a" again: "a" keeps the first
\* place and holds the third node.
C10_Witness ==
  /\ Len(setLog) = 3
  /\ setLog[1].key = <<97>> /\ setLog[2].key = <<98>> /\ setLog[3].key = <<97>>
  /\ mapKeys = << <<97>>, <<98>> >>
  /\ mapVals = <<3, 2>>
  /\ wexpr_Expression_mapValueForKey(<<97>>) = 3


RECURSIVE StructEq(_, _)

\* Structural equality of two trees: the same variant, the same Value and
\* BinaryData bytes, the same Array children in order, the same Map key set
\* and, for every key, equal values.
StructEq(a, b) ==
  /\ a.type = b.type
  /\ a.type \in {"Value", "BinaryData"} => a.bytes = b.bytes
  /\ a.type = "Array" =>
       /\ Len(a.kids) = Len(b.kids)
       /\ \A i \in 1..Len(a.kids) : StructEq(a.kids[i], b.kids[i])
  /\ a.type = "Map" =>
       /\ {a.keys[i] : i \in 1..Len(a.keys)} = {b.keys[i] : i \in 1..Len(b.keys)}
       /\ Len(a.keys) = Len(b.keys)
       /\ \A i \in 1..Len(a.keys) :
            StructEq(a.kids[i], b.kids[KeyIndex(b.keys, a.keys[i])])

RECURSIVE WellFormed(_)

\* A tree of Null, Value, BinaryData, Array and Map nodes whose Maps have
\* unique keys.
WellFormed(e) ==
  /\ e.type \in {"Null", "Value", "BinaryData", "Array", "Map"}
  /\ Len(e.keys) = (IF e.type = "Map" THEN Len(e.kids) ELSE 0)
  /\ \A i \in 1..Len(e.keys) : \A j \in 1..Len(e.keys) : e.keys[i] = e.keys[j] => i = j
  /\ \A i \in 1..Len(e.kids) : WellFormed(e.kids[i])

\* C11: for every well-formed tree e, createFromBinaryChunk applied to the
\* buffer of createBinaryRepresentation(e) returns no error and a tree
\* structurally equal to e, having used the whole buffer.
C11_BinaryRoundTrip ==
  (cpc = "decoded" /\ WellFormed(tree)) =>
    /\ decoded.code = ErrNone
    /\ decoded.expr # NullPtr
    /\ StructEq(decoded.expr, tree)
    /\ decoded.used = Len(encBuffer)

\* A Map of two keys, one of them holding a Map with a BinaryData value, has
\* been encoded and decoded.
C11_Witness ==
  /\ cpc = "decoded"
  /\ WellFormed(tree)
  /\ tree.type = "Map"
  /\ Len(tree.keys) = 2
  /\ \E i \in 1..2 :
       /\ tree.kids[i].type = "Map"
       /\ Len(tree.kids[i].keys) = 1
       /\ tree.kids[i].kids[1].type = "BinaryData"
  /\ decoded.expr = tree
  /\ Len(encBuffer) > 3 * ChunkPrefix

\* The error the header checks are to end with when they run in the order
\* length, magic, version, reserved and stop at the first that fails.
FirstHeaderFailure(data) ==
  IF Len(data) < Len(ValidHeader)
    THEN Error("BinaryInvalidHeader", "Invalid binary header - not big enough")
  ELSE IF DevAt(data, 0..7)
    THEN Error("BinaryInvalidHeader", "Invalid binary header - invalid magic")
  ELSE IF DevAt(data, 8..11)
    THEN Error("BinaryUnknownVersion", "Invalid binary header - unknown version")
  ELSE Error("BinaryInvalidHeader", "Invalid binary header - unknown reserved bits")

\* C12: on the binary path the header checks run in the order length, magic,
\* version, reserved and stop at the first failure: an input that starts with
\* 0x83 and is shorter than 20 bytes ends with BinaryInvalidHeader, a header
\* wrong in version and reserved bytes ends with BinaryUnknownVersion, and
\* after a header failure no chunk is read or decoded and nothing is parsed.
C12_HeaderCheckOrder ==
  (cmd \in Commands /\ IsBinary(input) /\ HeaderDiffers(input) /\ pc # "start") =>
    /\ pc \in {"report", "done"}
    /\ err = FirstHeaderFailure(input)
    /\ Len(input) < Len(ValidHeader) => err.code = "BinaryInvalidHeader"
    /\ (~DevAt(input, 0..7) /\ DevAt(input, 8..11) /\ DevAt(input, 12..19)) =>
         err.code = "BinaryUnknownVersion"
    /\ expr = NullPtr
    /\ calls = <<>>
    /\ readTo = -1
    /\ parsed = <<>>
    /\ curPos = N(0)

\* A run has ended on a 25-byte input whose version and reserved bytes are
\* both wrong, with a Null chunk behind the header.
C12_Witness ==
  /\ pc = "done"
  /\ cmd \in Commands
  /\ Len(input) = Len(ValidHeader) + Len(NullChunk)
  /\ ~DevAt(input, 0..7)
  /\ DevAt(input, 8..11)
  /\ DevAt(input, 12..19)
  /\ err.code = "BinaryUnknownVersion"
  /\ exit = "EXIT_FAILURE"

\* The decoder calls that failed, as indices of the history.
FailedCalls == {i \in DOMAIN decLog : decLog[i].code # ErrNone}

\* C13: once a decoder call of the chunk scan has set an error, no later chunk
\* is handed to the decoder, and the run ends with the error kind of the first
\* failure.  Read in the claim's favour: inputs with a valid header that whole
\* chunks fill exactly, so that every decoder call stays within the input.
C13_FailFastAtTopLevel ==
  (cmd \in Commands /\ HasValidHeader(input) /\ TopChunks(input).ok) =>
    /\ \A i \in DOMAIN decLog : decLog[i].before = ErrNone
    /\ (pc = "done" /\ FailedCalls # {}) =>
         err.code = decLog[FirstOf(FailedCalls)].code

\* The part of C13 the code keeps: a run in which a decoder call failed ends
\* with an error, though not always the first one.
C13_FailureIsReported ==
  (cmd \in Commands /\ pc = "done" /\ FailedCalls # {}) =>
    /\ err.code # ErrNone
    /\ exit = "EXIT_FAILURE"

\* C14: in the chunk scan every byte the driver reads, the four size bytes at
\* curPos..curPos+3 and the type byte at curPos+4, lies at an offset below the
\* input's length, for every input with a valid header.
C14_ScanReadsWithinInput ==
  (cmd \in Commands /\ HasValidHeader(input)) => readTo < Len(input)

\* The part of C14 the code keeps: the scan reads past the input only when
\* fewer than 5 bytes are left at curPos, or after a chunk whose size field
\* runs past the input or wraps curPos around.
C14_ReadsWithinWholeChunks ==
  (cmd \in Commands /\ HasValidHeader(input) /\ TopChunks(input).ok) =>
    readTo < Len(input)

\* An iteration of the scan's loop starts in this state.
AtLoopHead == pc = "scan" /\ Lt(curPos, N(Len(input)))

\* At most ceil((inputSize - 20) / 5) iterations have begun.
WithinIterationBound == ChunkPrefix * (iters - 1) < Len(input) - HeaderSize

\* C15: the chunk scan terminates on every input: each iteration either
\* leaves the loop or increases curPos by at least 5, so that the loop runs
\* at most ceil((inputSize - 20) / 5) iterations.
C15_ScanTerminates ==
  /\ [][AtLoopHead => (pc' # "scan" \/ Le(Add(curPos, N(ChunkPrefix)), curPos'))]_vars
  /\ [](iters > 0 => WithinIterationBound)

\* The part of C15 the code keeps: where size_t has 64 bits every iteration
\* leaves the loop or increases curPos by at least 5, within the bound.
C15_ScanTerminatesOn64Bit ==
  /\ [][(bits = 64 /\ AtLoopHead)
          => (pc' # "scan" \/ Le(Add(curPos, N(ChunkPrefix)), curPos'))]_vars
  /\ []((bits = 64 /\ iters > 0) => WithinIterationBound)

=========================================================================
